---- MODULE Spec2Model ----
(***************************************************************************)
(* Model of package schema (src/schema.go): the Checker interface, its     *)
(* leaf and composite implementations, the error type and its rendering,   *)
(* and the Go slice semantics of the path argument (backing array, length, *)
(* capacity, append in place or by reallocation).                          *)
(***************************************************************************)
EXTENDS Integers, Sequences, FiniteSets

(***************************************************************************)
(* Bounds of the model.                                                    *)
(***************************************************************************)
\* largest spare capacity (cap - len) of the path slice a caller passes in
MaxSpare == 3
\* longest generated input slice
MaxLen == 2

(***************************************************************************)
(* Go values held in an interface{}.  kind is the reflect.Kind of the      *)
(* dynamic type; a nil interface has no dynamic type.                      *)
(***************************************************************************)
Nil == [kind |-> "nil"]
BoolV(b) == [kind |-> "bool", b |-> b]
NumV(k, n) == [kind |-> k, n |-> n]
StrV(s) == [kind |-> "string", s |-> s]
SliceV(elems) == [kind |-> "slice", elems |-> elems]
MapV(typ, m) == [kind |-> "map", typ |-> typ, m |-> m]

\* the two map types the package itself creates (lines 241 and 294)
GenericMap == "map[interface {}]interface {}"
StringMap == "map[string]interface {}"
EmptyMap == <<>>

\* a map with one more entry, overwriting an entry of an equal key
MapPut(m, k, x) == [y \in (DOMAIN m) \cup {k} |-> IF y = k THEN x ELSE m[y]]

(***************************************************************************)
(* Text conversions: strconv.Itoa, fmt.Sprint, fmt.Sprintf("%#v"),         *)
(* strings.Join(_, "").                                                    *)
(***************************************************************************)
Digits == <<"0", "1", "2", "3", "4", "5", "6", "7", "8", "9">>

RECURSIVE Itoa(_)
Itoa(n) ==
    IF n < 0 THEN "-" \o Itoa(0 - n)
    ELSE IF n < 10 THEN Digits[n + 1]
    ELSE Itoa(n \div 10) \o Digits[(n % 10) + 1]

\* an unsigned integer under %#v: 0x and its hexadecimal digits
HexDigits == <<"0", "1", "2", "3", "4", "5", "6", "7", "8", "9", "a", "b", "c", "d", "e", "f">>
RECURSIVE Hex(_)
Hex(n) == IF n < 16 THEN HexDigits[n + 1] ELSE Hex(n \div 16) \o HexDigits[(n % 16) + 1]
UintKinds == {"uint", "uint8", "uint16", "uint32", "uint64"}

RECURSIVE Join(_)
Join(segs) == IF segs = <<>> THEN "" ELSE Head(segs) \o Join(Tail(segs))

\* every enumeration order of a finite set, as a set of sequences
RECURSIVE Orders(_)
Orders(S) ==
    IF S = {} THEN {<<>>}
    ELSE UNION {{<<x>> \o o : o \in Orders(S \ {x})} : x \in S}

\* fmt.Sprint of a map key (line 249)
Sprint(v) ==
    CASE v.kind = "nil" -> "<nil>"
      [] v.kind = "bool" -> IF v.b THEN "true" ELSE "false"
      [] v.kind = "string" -> v.s
      [] OTHER -> Itoa(v.n)

\* fmt.Sprintf("%#v", v): the possible texts (a map is printed in its
\* enumeration order, so it has one text per order)
RECURSIVE GoSyntax(_), GoSyntaxSeq(_), GoSyntaxMap(_, _)
GoSyntax(v) ==
    CASE v.kind = "nil" -> {"<nil>"}
      [] v.kind = "bool" -> {IF v.b THEN "true" ELSE "false"}
      [] v.kind = "string" -> {"\"" \o v.s \o "\""}
      [] v.kind = "slice" -> {"[]interface {}{" \o s \o "}" : s \in GoSyntaxSeq(v.elems)}
      [] v.kind = "map" ->
           {v.typ \o "{" \o s \o "}" :
               s \in UNION {GoSyntaxMap(v.m, o) : o \in Orders(DOMAIN v.m)}}
      [] v.kind \in UintKinds -> {"0x" \o Hex(v.n)}
      [] OTHER -> {Itoa(v.n)}
GoSyntaxSeq(elems) ==
    IF elems = <<>> THEN {""}
    ELSE IF Len(elems) = 1 THEN GoSyntax(elems[1])
    ELSE {a \o ", " \o b : a \in GoSyntax(elems[1]), b \in GoSyntaxSeq(Tail(elems))}
GoSyntaxMap(m, order) ==
    IF order = <<>> THEN {""}
    ELSE LET k == Head(order)
             entry == {a \o ":" \o b : a \in GoSyntax(k), b \in GoSyntax(m[k])}
         IN IF Len(order) = 1 THEN entry
            ELSE {e \o ", " \o r : e \in entry, r \in GoSyntaxMap(m, Tail(order))}

\* regexp.Compile succeeds (line 177); the patterns of the model that do not
\* compile are the ones with an unclosed group or class
BadRegexps == {"(", "["}
RegexpCompiles(s) == s \notin BadRegexps

(***************************************************************************)
(* Go slices of strings.  heap is the sequence of backing arrays allocated *)
(* so far, each as long as its capacity; a slice is a backing array and a  *)
(* length (every slice of the package starts at offset 0).  arr = 0 is the *)
(* nil slice.                                                              *)
(***************************************************************************)
NilSlice == [arr |-> 0, len |-> 0]
Cap(heap, s) == IF s.arr = 0 THEN 0 ELSE Len(heap[s.arr])
Read(heap, s) == IF s.arr = 0 THEN <<>> ELSE SubSeq(heap[s.arr], 1, s.len)

\* the capacity of a slice that has to grow is the runtime's choice: the
\* model allows the exact fit and the doubling of the old capacity
RECURSIVE Doubled(_, _)
Doubled(cap, need) ==
    IF cap = 0 THEN need
    ELSE IF cap >= need THEN cap
    ELSE Doubled(cap + cap, need)
GrowCap(cap, need) == {need, Doubled(cap, need)}

\* append(s, segs...): in place when the capacity allows, else into a new
\* backing array; the set of the possible results
GoAppend(heap, s, segs) ==
    LET need == s.len + Len(segs)
    IN IF need <= Cap(heap, s)
       THEN {[heap |-> [heap EXCEPT ![s.arr] =
                           [j \in 1..Len(@) |->
                               IF j > s.len /\ j <= need THEN segs[j - s.len] ELSE @[j]]],
              slice |-> [arr |-> s.arr, len |-> need]]}
       ELSE {[heap |-> Append(heap, [j \in 1..ncap |->
                                        IF j <= s.len THEN heap[s.arr][j]
                                        ELSE IF j <= need THEN segs[j - s.len]
                                        ELSE ""]),
              slice |-> [arr |-> Len(heap) + 1, len |-> need]] :
                ncap \in GrowCap(Cap(heap, s), need)}

\* s[len(s)-back] = seg
SetFromEnd(heap, s, back, seg) ==
    [heap EXCEPT ![s.arr] = [@ EXCEPT ![s.len - back + 1] = seg]]


(***************************************************************************)
(* Checkers.  Each constructor returns the struct the Go constructor       *)
(* returns.  (Int is taken by the Integers module, so the constructor of   *)
(* intC is called Integer here.)                                           *)
(***************************************************************************)
NilChecker == [kind |-> "nil"]
Any == [kind |-> "anyC"]
Const(value) == [kind |-> "constC", value |-> value]
OneOf(options) == [kind |-> "oneOfC", options |-> options]
Bool == [kind |-> "boolC"]
Integer == [kind |-> "intC"]
Float == [kind |-> "floatC"]
String == [kind |-> "stringC"]
SimpleRegexp == [kind |-> "sregexpC"]
List(elem) == [kind |-> "listC", elem |-> elem]
Map(key, value) == [kind |-> "mapC", key |-> key, value |-> value]
FieldMap(fields, optional) == [kind |-> "fieldMapC", fields |-> fields, optional |-> optional]

\* fields[name] of a Go map: the zero value (a nil Checker) when name is missing
FieldOf(fields, name) == IF name \in DOMAIN fields THEN fields[name] ELSE NilChecker

ConstructionPanic(msg) == [kind |-> "panic", msg |-> msg]

\* FieldMapSet without the missing-selector check of lines 322-324
FieldMapSetNoSelectorCheck(selector, maps) ==
    IF \E i \in 1..Len(maps) : maps[i].kind # "fieldMapC"
    THEN ConstructionPanic("FieldMapSet got a non-FieldMap checker")
    ELSE [kind |-> "mapSetC", selector |-> selector, fmaps |-> maps]

\* the first candidate that makes the constructor panic decides the message
FieldMapSet(selector, maps) ==
    LET bad(i) == \/ maps[i].kind # "fieldMapC"
                  \/ FieldOf(maps[i].fields, selector) = NilChecker
        badIdx == {i \in 1..Len(maps) : bad(i)}
    IN IF badIdx = {}
       THEN [kind |-> "mapSetC", selector |-> selector, fmaps |-> maps]
       ELSE LET i == CHOOSE j \in badIdx : \A k \in badIdx : j <= k
            IN IF maps[i].kind # "fieldMapC"
               THEN ConstructionPanic("FieldMapSet got a non-FieldMap checker")
               ELSE ConstructionPanic("FieldMapSet has a FieldMap with a missing selector")

(***************************************************************************)
(* Outcomes of a Coerce call.  st is the memory after the call: the heap   *)
(* of path arrays and the log of the Coerce invocations made so far (the   *)
(* checker, the value and the path text each invocation was given).  An    *)
(* error holds the slice it was built with; lpath is the path the branch   *)
(* of the traversal stands for, kept for comparison with what the slice    *)
(* holds.                                                                  *)
(***************************************************************************)
NoError == [want |-> "", got |-> Nil, path |-> NilSlice, lpath |-> <<>>]
Ok(newv, st) == [status |-> "ok", newv |-> newv, err |-> NoError, panic |-> "", st |-> st]
Fail(want, got, path, lpath, st) ==
    [status |-> "err", newv |-> Nil,
     err |-> [want |-> want, got |-> got, path |-> path, lpath |-> lpath],
     panic |-> "", st |-> st]
Panic(msg, st) == [status |-> "panic", newv |-> Nil, err |-> NoError, panic |-> msg, st |-> st]

NilKind == "reflect.TypeOf(nil).Kind(): nil pointer dereference"
NilCall == "Coerce called on a nil Checker"

Invoked(st, c, v, path, lpath) ==
    [st EXCEPT !.log = Append(@, [c |-> c, v |-> v, path |-> Read(st.heap, path),
                                   lpath |-> lpath])]

IntKinds == {"int", "int8", "int16", "int32", "int64"}
FloatKinds == {"float32", "float64"}

anyC_Coerce(c, v, path, lpath, st) == {Ok(v, st)}

constC_Coerce(c, v, path, lpath, st) ==
    IF v = c.value THEN {Ok(v, st)}
    ELSE {Fail(w, v, path, lpath, st) : w \in GoSyntax(c.value)}

boolC_Coerce(c, v, path, lpath, st) ==
    IF v.kind = "nil" THEN {Panic(NilKind, st)}
    ELSE IF v.kind = "bool" THEN {Ok(v, st)}
    ELSE {Fail("bool", v, path, lpath, st)}

intC_Coerce(c, v, path, lpath, st) ==
    IF v.kind = "nil" THEN {Panic(NilKind, st)}
    ELSE IF v.kind \in IntKinds THEN {Ok(NumV("int64", v.n), st)}
    ELSE {Fail("int", v, path, lpath, st)}

floatC_Coerce(c, v, path, lpath, st) ==
    IF v.kind = "nil" THEN {Panic(NilKind, st)}
    ELSE IF v.kind \in FloatKinds THEN {Ok(NumV("float64", v.n), st)}
    ELSE {Fail("float", v, path, lpath, st)}

stringC_Coerce(c, v, path, lpath, st) ==
    IF v.kind = "nil" THEN {Panic(NilKind, st)}
    ELSE IF v.kind = "string" THEN {Ok(StrV(v.s), st)}
    ELSE {Fail("string", v, path, lpath, st)}

sregexpC_Coerce(c, v, path, lpath, st) ==
    IF v.kind = "nil" THEN {Panic(NilKind, st)}
    ELSE IF v.kind = "string"
         THEN IF RegexpCompiles(v.s) THEN {Ok(v, st)}
              ELSE {Fail("valid regexp", StrV(v.s), path, lpath, st)}
    ELSE {Fail("regexp string", v, path, lpath, st)}

(***************************************************************************)
(* Composite checkers.  Coerce(c, v, path, lpath, st) is c.Coerce(v, path) *)
(* run in memory st: the set of its possible outcomes, one per enumeration *)
(* order of the Go maps it ranges over.                                    *)
(***************************************************************************)
RECURSIVE Coerce(_, _, _, _, _)
RECURSIVE oneOfC_loop(_, _, _, _, _, _, _)
RECURSIVE listC_loop(_, _, _, _, _, _, _)
RECURSIVE mapC_loop(_, _, _, _, _, _, _, _, _)
RECURSIVE fieldMapC_loop(_, _, _, _, _, _, _, _)
RECURSIVE mapSetC_loop(_, _, _, _, _, _, _)

\* the options in any order, as if they were ranged over like a Go map
RangeOptionsUnordered(options) == Orders(1..Len(options))

\* for _, o := range c.options: the indexes in slice order
RangeOptions(options) == {[i \in 1..Len(options) |-> i]}

oneOfC_loop(c, order, n, v, path, lpath, st) ==
    IF n > Len(order) THEN {Fail("", Nil, path, lpath, st)}
    ELSE UNION {IF r.status = "err"
                THEN oneOfC_loop(c, order, n + 1, v, path, lpath, r.st)
                ELSE {r} :
                r \in Coerce(c.options[order[n]], v, path, lpath, st)}

oneOfC_Coerce(c, v, path, lpath, st) ==
    UNION {oneOfC_loop(c, order, 1, v, path, lpath, st) : order \in RangeOptions(c.options)}

\* the element put in front of the ones coerced so far
ListPrepend(out, elem) == <<elem>> \o out

\* out = append(out, elem)
ListAppend(out, elem) == Append(out, elem)

\* path[len(path)-2] = strconv.Itoa(i)
ListSetIndex(heap, path, i) == SetFromEnd(heap, path, 2, Itoa(i))

listC_loop(c, elems, i, out, path, lpath, st) ==
    IF i = Len(elems) THEN {Ok(SliceV(out), st)}
    ELSE LET st1 == [st EXCEPT !.heap = ListSetIndex(@, path, i)]
         IN UNION {IF r.status = "ok"
                   THEN listC_loop(c, elems, i + 1, ListAppend(out, r.newv), path, lpath, r.st)
                   ELSE {r} :
                   r \in Coerce(c.elem, elems[i + 1], path,
                                lpath \o <<"[", Itoa(i), "]">>, st1)}

listC_Coerce(c, v, path, lpath, st) ==
    IF v.kind # "slice" THEN {Fail("list", v, path, lpath, st)}
    ELSE UNION {listC_loop(c, v.elems, 0, <<>>, a.slice, lpath,
                           [st EXCEPT !.heap = a.heap]) :
                a \in GoAppend(st.heap, path, <<"[", "?", "]">>)}

\* rv.MapKeys(): the keys in any order
MapKeys(m) == Orders(DOMAIN m)

\* the key checker given the extended path
KeyPathExtended(path, vpath) == vpath

\* the path the key checker is given (line 245)
KeyPath(path, vpath) == path

mapC_loop(c, m, keys, i, out, path, vpath, lpath, st) ==
    IF i = Len(keys) THEN {Ok(MapV(GenericMap, out), st)}
    ELSE LET k == keys[i + 1]
         IN UNION {IF rk.status # "ok" THEN {rk}
                   ELSE LET st1 == [rk.st EXCEPT !.heap = SetFromEnd(@, vpath, 1, Sprint(k))]
                        IN UNION {IF rv.status # "ok" THEN {rv}
                                  ELSE mapC_loop(c, m, keys, i + 1,
                                                 MapPut(out, rk.newv, rv.newv),
                                                 path, vpath, lpath, rv.st) :
                                  rv \in Coerce(c.value, m[k], vpath,
                                                lpath \o <<".", Sprint(k)>>, st1)} :
                   rk \in Coerce(c.key, k, KeyPath(path, vpath), lpath, st)}

mapC_Coerce(c, v, path, lpath, st) ==
    IF v.kind # "map" THEN {Fail("map", v, path, lpath, st)}
    ELSE UNION {mapC_loop(c, v.m, keys, 0, EmptyMap, path, a.slice, lpath,
                          [st EXCEPT !.heap = a.heap]) :
                a \in GoAppend(st.heap, path, <<".", "?">>), keys \in MapKeys(v.m)}

isOptional(c, key) == \E i \in 1..Len(c.optional) : c.optional[i] = key

\* for k, checker := range c.fields: the field names in any order
RangeFields(fields) == Orders(DOMAIN fields)

fieldMapC_loop(c, m, names, i, out, vpath, lpath, st) ==
    IF i = Len(names) THEN {Ok(MapV(StringMap, out), st)}
    ELSE LET k == names[i + 1]
             st1 == [st EXCEPT !.heap = SetFromEnd(@, vpath, 1, k)]
             present == StrV(k) \in DOMAIN m
             value == IF present THEN m[StrV(k)] ELSE Nil
         IN IF ~present /\ isOptional(c, k)
            THEN fieldMapC_loop(c, m, names, i + 1, out, vpath, lpath, st1)
            ELSE UNION {IF r.status # "ok" THEN {r}
                        ELSE fieldMapC_loop(c, m, names, i + 1, MapPut(out, StrV(k), r.newv),
                                            vpath, lpath, r.st) :
                        r \in Coerce(c.fields[k], value, vpath, lpath \o <<".", k>>, st1)}

fieldMapC_Coerce(c, v, path, lpath, st) ==
    IF v.kind # "map" THEN {Fail("map", v, path, lpath, st)}
    ELSE UNION {fieldMapC_loop(c, v.m, names, 0, EmptyMap, a.slice, lpath,
                               [st EXCEPT !.heap = a.heap]) :
                a \in GoAppend(st.heap, path, <<".", "?">>),
                names \in RangeFields(c.fields)}

mapSetC_loop(c, i, selector, v, path, lpath, st) ==
    IF i = Len(c.fmaps)
    THEN {Fail("supported selector", selector, a.slice, lpath \o <<".", c.selector>>,
               [st EXCEPT !.heap = a.heap]) :
             a \in GoAppend(st.heap, path, <<".", c.selector>>)}
    ELSE LET fmap == c.fmaps[i + 1]
         IN UNION {IF r.status = "err"
                   THEN mapSetC_loop(c, i + 1, selector, v, path, lpath, r.st)
                   ELSE IF r.status = "panic" THEN {r}
                   ELSE Coerce(fmap, v, path, lpath, r.st) :
                   r \in Coerce(FieldOf(fmap.fields, c.selector), selector, path, lpath, st)}

mapSetC_Coerce(c, v, path, lpath, st) ==
    IF v.kind # "map" THEN {Fail("map", v, path, lpath, st)}
    ELSE IF StrV(c.selector) \in DOMAIN v.m
         THEN mapSetC_loop(c, 0, v.m[StrV(c.selector)], v, path, lpath, st)
         ELSE mapSetC_loop(c, Len(c.fmaps), Nil, v, path, lpath, st)

\* dynamic dispatch of the interface method, recorded in the log
Coerce(c, v, path, lpath, st) ==
    LET s == Invoked(st, c, v, path, lpath)
    IN CASE c.kind = "anyC" -> anyC_Coerce(c, v, path, lpath, s)
         [] c.kind = "constC" -> constC_Coerce(c, v, path, lpath, s)
         [] c.kind = "oneOfC" -> oneOfC_Coerce(c, v, path, lpath, s)
         [] c.kind = "boolC" -> boolC_Coerce(c, v, path, lpath, s)
         [] c.kind = "intC" -> intC_Coerce(c, v, path, lpath, s)
         [] c.kind = "floatC" -> floatC_Coerce(c, v, path, lpath, s)
         [] c.kind = "stringC" -> stringC_Coerce(c, v, path, lpath, s)
         [] c.kind = "sregexpC" -> sregexpC_Coerce(c, v, path, lpath, s)
         [] c.kind = "listC" -> listC_Coerce(c, v, path, lpath, s)
         [] c.kind = "mapC" -> mapC_Coerce(c, v, path, lpath, s)
         [] c.kind = "fieldMapC" -> fieldMapC_Coerce(c, v, path, lpath, s)
         [] c.kind = "mapSetC" -> mapSetC_Coerce(c, v, path, lpath, s)
         [] OTHER -> {Panic(NilCall, st)}

(***************************************************************************)
(* error.String (lines 28-42): the possible texts, or the run-time panic   *)
(* of e.path[0] on a path without segments.                                *)
(***************************************************************************)
IndexPanic == "index out of range"
Rendered(text) == [status |-> "ok", text |-> text]
RenderPanic(msg) == [status |-> "panic", text |-> msg]

error_String(e, heap) ==
    LET segs == Read(heap, e.path)
    IN IF Len(segs) = 0 THEN {RenderPanic(IndexPanic)}
       ELSE LET path == IF segs[1] = "." THEN Join(Tail(segs)) ELSE Join(segs)
            IN IF e.want = "" THEN {Rendered(path \o ": unsupported value")}
               ELSE IF e.got = Nil
                    THEN {Rendered(path \o ": expected " \o e.want \o ", got nothing")}
               ELSE {Rendered(path \o ": expected " \o e.want \o ", got " \o g) :
                        g \in GoSyntax(e.got)}

(***************************************************************************)
(* Inputs: schemas, values and caller paths.                               *)
(***************************************************************************)
Fields1(k, x) == MapPut(EmptyMap, k, x)
Fields2(k1, x1, k2, x2) == MapPut(Fields1(k1, x1), k2, x2)
Map1(k, x) == MapV(GenericMap, MapPut(EmptyMap, k, x))
Map2(k1, x1, k2, x2) == MapV(GenericMap, MapPut(MapPut(EmptyMap, k1, x1), k2, x2))

Scalars ==
    {Nil, BoolV(TRUE), NumV("int8", 1), NumV("int64", 1), NumV("uint8", 1),
     NumV("float32", 1), StrV("a"), StrV("(")}

ElemValues == {Nil, NumV("int8", 1), StrV("x")}

RECURSIVE SeqsUpTo(_, _)
SeqsUpTo(S, n) ==
    IF n = 0 THEN {<<>>}
    ELSE LET shorter == SeqsUpTo(S, n - 1)
         IN shorter \cup {Append(q, x) : q \in {r \in shorter : Len(r) = n - 1}, x \in S}

Slices ==
    {SliceV(q) : q \in SeqsUpTo(ElemValues, MaxLen)}
    \cup {SliceV(<<SliceV(<<NumV("int8", 1)>>), SliceV(<<NumV("int8", 1), StrV("x")>>)>>),
          SliceV(<<Map1(StrV("a"), NumV("int8", 1)), Map1(StrV("a"), StrV("x"))>>)}

Maps ==
    {MapV(GenericMap, EmptyMap),
     Map1(StrV("a"), BoolV(TRUE)),
     Map2(StrV("a"), NumV("int8", 1), StrV("b"), NumV("int8", 2)),
     Map2(StrV("a"), StrV("x"), StrV("b"), StrV("y")),
     Map2(NumV("int8", 1), StrV("a"), NumV("int64", 1), StrV("b")),
     Map2(StrV("a"), SliceV(<<NumV("int8", 1)>>), StrV("b"), SliceV(<<StrV("x")>>)),
     Map2(StrV("kind"), StrV("a"), StrV("x"), NumV("int8", 1)),
     Map2(StrV("kind"), StrV("b"), StrV("y"), StrV("hi")),
     Map1(StrV("kind"), StrV("a")),
     Map1(StrV("kind"), StrV("c")),
     Map1(StrV("kind"), Nil),
     Map1(StrV("kind"), NumV("int8", 1)),
     Map2(StrV("kind"), SliceV(<<StrV("x")>>), StrV("x"), NumV("int8", 1))}

Values == Scalars \cup Slices \cup Maps

KindA == FieldMap(Fields2("kind", Const(StrV("a")), "x", Integer), <<>>)
KindB == FieldMap(Fields2("kind", Const(StrV("b")), "y", String), <<>>)
KindStr == FieldMap(Fields2("kind", String, "x", Integer), <<>>)
KindAny == FieldMap(Fields1("kind", Any), <<>>)
KindBool == FieldMap(Fields1("kind", Bool), <<>>)
KindOne == FieldMap(Fields2("kind", Const(NumV("int64", 1)), "x", Any), <<>>)
KindInt == FieldMap(Fields1("kind", Integer), <<>>)
KindInts == FieldMap(Fields1("kind", List(Integer)), <<>>)
KindList == FieldMap(Fields2("kind", List(Any), "x", Bool), <<>>)

Checkers ==
    {Any, Const(StrV("a")), Bool, Integer, Float, String, SimpleRegexp,
     OneOf(<<>>), OneOf(<<Bool, Integer>>), OneOf(<<Integer, Any>>), OneOf(<<Bool, Any>>),
     OneOf(<<List(Integer), List(String)>>),
     OneOf(<<FieldMap(Fields2("a", Const(NumV("int64", 1)), "b", Integer), <<>>),
             FieldMap(Fields2("a", Integer, "b", Any), <<>>)>>),
     List(Integer), List(Any), List(List(Integer)),
     List(FieldMap(Fields1("a", Integer), <<>>)),
     Map(String, Integer), Map(Integer, Any), Map(Any, List(Integer)),
     FieldMap(Fields1("a", Bool), <<>>), FieldMap(Fields1("a", Bool), <<"a">>),
     FieldMap(Fields1("a", Any), <<>>),
     FieldMap(Fields2("a", Integer, "b", Integer), <<>>),
     FieldMap(Fields2("a", List(Integer), "b", List(Integer)), <<"b">>),
     List(FieldMapSet("kind", <<KindA, KindB>>))}

\* the FieldMapSet calls of the model, well-formed and not
SetRequests ==
    {[selector |-> "kind", maps |-> <<KindA, KindB>>],
     [selector |-> "kind", maps |-> <<KindStr, KindAny>>],
     [selector |-> "kind", maps |-> <<KindBool, KindAny>>],
     [selector |-> "kind", maps |-> <<KindOne, KindInt>>],
     [selector |-> "kind", maps |-> <<KindInts, KindList>>],
     [selector |-> "kind", maps |-> <<>>],
     [selector |-> "kind", maps |-> <<Bool>>],
     [selector |-> "kind", maps |-> <<KindA, List(Any)>>],
     [selector |-> "kind", maps |-> <<KindA, FieldMap(Fields1("x", Integer), <<>>)>>],
     [selector |-> "kind", maps |-> <<FieldMap(Fields1("kind", NilChecker), <<>>)>>]}

Requests ==
    {[ctor |-> "FieldMapSet", selector |-> q.selector, maps |-> q.maps] : q \in SetRequests}
    \cup {[ctor |-> "value", checker |-> k] : k \in Checkers}

PathSegs == {<<>>, <<".">>, <<"<pa", "th>">>}

\* a second value for a checker that has already coerced one
SecondValues ==
    {SliceV(<<StrV("x")>>), Map2(StrV("a"), StrV("x"), StrV("b"), StrV("y"))}

(***************************************************************************)
(* The program: a schema is constructed, then used for Coerce calls on the *)
(* caller's path slice; a returned error is rendered.                      *)
(***************************************************************************)
VARIABLES phase, req, c, v, path, segs0, heap, resA, logA, vB, resB, resR, rendered

vars == <<phase, req, c, v, path, segs0, heap, resA, logA, vB, resB, resR, rendered>>

NoResult == [status |-> "none"]
NoText == [status |-> "none"]

\* what the caller holds after a call: the returned pair, and the text the
\* error's path slice held when the call returned
Result(r) ==
    [status |-> r.status, newv |-> r.newv, want |-> r.err.want, got |-> r.err.got,
     path |-> r.err.path, lpath |-> r.err.lpath, panic |-> r.panic,
     ptext |-> Read(r.st.heap, r.err.path)]

\* the caller's path: its segments in a backing array with spare capacity
InitHeap(segs, spare) == <<segs \o [j \in 1..spare |-> ""]>>

Init ==
    /\ phase = "new"
    /\ req \in Requests
    /\ c = NilChecker
    /\ v \in Values
    /\ segs0 \in PathSegs
    /\ \E spare \in 0..MaxSpare : heap = InitHeap(segs0, spare)
    /\ path = [arr |-> 1, len |-> Len(segs0)]
    /\ resA = NoResult
    /\ logA = <<>>
    /\ vB = Nil
    /\ resB = NoResult
    /\ resR = NoResult
    /\ rendered = NoText

\* the schema is built; FieldMapSet may panic instead
Construct ==
    /\ phase = "new"
    /\ c' = IF req.ctor = "FieldMapSet" THEN FieldMapSet(req.selector, req.maps)
            ELSE req.checker
    /\ phase' = IF c'.kind = "panic" THEN "aborted" ELSE "built"
    /\ UNCHANGED <<req, v, path, segs0, heap, resA, logA, vB, resB, resR, rendered>>

\* newv, err := c.Coerce(v, path)
CoerceA ==
    /\ phase = "built"
    /\ \E r \in Coerce(c, v, path, segs0, [heap |-> heap, log |-> <<>>]) :
          /\ resA' = Result(r)
          /\ logA' = r.st.log
          /\ heap' = r.st.heap
    /\ phase' = "coerced"
    /\ UNCHANGED <<req, c, v, path, segs0, vB, resB, resR, rendered>>

\* a second call with the same checker and the same path slice
CoerceB ==
    /\ phase = "coerced"
    /\ \E w \in {v} \cup SecondValues :
          /\ vB' = w
          /\ \E r \in Coerce(c, w, path, segs0, [heap |-> heap, log |-> <<>>]) :
                /\ resB' = Result(r)
                /\ heap' = r.st.heap
    /\ phase' = "coercedB"
    /\ UNCHANGED <<req, c, v, path, segs0, resA, logA, resR, rendered>>

\* the output of the first call coerced again
Recoerce ==
    /\ phase = "coerced"
    /\ resA.status = "ok"
    /\ \E r \in Coerce(c, resA.newv, path, segs0, [heap |-> heap, log |-> <<>>]) :
          /\ resR' = Result(r)
          /\ heap' = r.st.heap
    /\ phase' = "recoerced"
    /\ UNCHANGED <<req, c, v, path, segs0, resA, logA, vB, resB, rendered>>

\* err.String() on the error of the first call
ErrorString ==
    /\ phase \in {"coerced", "coercedB"}
    /\ resA.status = "err"
    /\ rendered' \in error_String(resA, heap)
    /\ phase' = IF phase = "coerced" THEN "rendered" ELSE "renderedB"
    /\ UNCHANGED <<req, c, v, path, segs0, heap, resA, logA, vB, resB, resR>>

Next == Construct \/ CoerceA \/ CoerceB \/ Recoerce \/ ErrorString

Spec == Init /\ [][Next]_vars

(***************************************************************************)
(* Vocabulary of the properties.                                           *)
(***************************************************************************)
Min(S) == CHOOSE i \in S : \A j \in S : i <= j

\* the results c0.Coerce(v0, p) can return by itself, p a fresh slice
\* holding segs
Own(c0, v0, segs) ==
    {Result(r) : r \in Coerce(c0, v0, [arr |-> 1, len |-> Len(segs)], segs,
                              [heap |-> <<segs>>, log |-> <<>>])}

\* what a caller can observe of a result
View(res) ==
    [status |-> res.status, newv |-> res.newv, want |-> res.want, got |-> res.got,
     ptext |-> res.ptext]
Views(S) == {View(res) : res \in S}

Succeeds(c0, v0) == \E res \in Own(c0, v0, <<>>) : res.status = "ok"
Fails(c0, v0) == \E res \in Own(c0, v0, <<>>) : res.status # "ok"
Errs(c0, v0) == \E res \in Own(c0, v0, <<>>) : res.status = "err"

\* the text error.String puts before the colon
PathText(segs) ==
    IF segs # <<>> /\ segs[1] = "." THEN Join(Tail(segs)) ELSE Join(segs)

IsPrefix(a, b) == Len(a) <= Len(b) /\ SubSeq(b, 1, Len(a)) = a

\* the checkers consulted by the first call after the top-level one
Consulted == {logA[n].c : n \in 2..Len(logA)}

TypedLeafWant(k) ==
    CASE k.kind = "boolC" -> "bool"
      [] k.kind = "intC" -> "int"
      [] k.kind = "floatC" -> "float"
      [] k.kind = "stringC" -> "string"
      [] k.kind = "sregexpC" -> "regexp string"
      [] OTHER -> ""
TypedLeaves == {Bool, Integer, Float, String, SimpleRegexp}

(***************************************************************************)
(* C1: OneOf returns the coerced value of the lowest-indexed option whose  *)
(* own Coerce succeeds, consulting no later option; when no option         *)
(* succeeds it returns an error with an empty expected description and the *)
(* path it was given, which renders as "<path>: unsupported value".        *)
(***************************************************************************)
C1_OneOfFirstSuccess ==
    /\ (phase = "coerced" /\ c.kind = "oneOfC") =>
          LET succ == {i \in 1..Len(c.options) : Succeeds(c.options[i], v)}
          IN IF succ # {}
             THEN /\ resA.status = "ok"
                  /\ resA.newv \in {res.newv : res \in Own(c.options[Min(succ)], v, segs0)}
                  /\ \A j \in 1..Len(c.options) :
                        j > Min(succ) => c.options[j] \notin Consulted
             ELSE /\ resA.status = "err"
                  /\ resA.want = ""
                  /\ resA.ptext = segs0
    /\ (phase = "rendered" /\ c.kind = "oneOfC") =>
          rendered = Rendered(PathText(segs0) \o ": unsupported value")

(***************************************************************************)
(* C2: FieldMapSet on a mapping that has the selector field gives exactly  *)
(* the outcome of the first candidate whose selector-field checker accepts *)
(* the selector value; without the field or without such a candidate it    *)
(* gives the "supported selector" error with the selector value at the     *)
(* path extended by the selector field name.                               *)
(***************************************************************************)
C2_MapSetSelects ==
    (phase = "coerced" /\ c.kind = "mapSetC" /\ v.kind = "map") =>
       LET s == StrV(c.selector)
           acc == {i \in 1..Len(c.fmaps) :
                      /\ s \in DOMAIN v.m
                      /\ Succeeds(FieldOf(c.fmaps[i].fields, c.selector), v.m[s])}
       IN IF acc # {}
          THEN View(resA) \in Views(Own(c.fmaps[Min(acc)], v, segs0))
          ELSE /\ resA.status = "err"
               /\ resA.want = "supported selector"
               /\ resA.got = (IF s \in DOMAIN v.m THEN v.m[s] ELSE Nil)
               /\ resA.ptext = segs0 \o <<".", c.selector>>

(***************************************************************************)
(* C3: a declared field absent from the input of a FieldMap is skipped     *)
(* when optional (its checker is not invoked, the field is not in the      *)
(* result); otherwise its checker gets the absent value at the path        *)
(* extended by the field, so that Any puts the absent value in the result  *)
(* and a typed leaf checker returns its error with an absent offending     *)
(* value; the call never aborts.                                           *)
(***************************************************************************)
C3_AbsentField ==
    (phase = "coerced" /\ c.kind = "fieldMapC" /\ v.kind = "map") =>
       \A f \in DOMAIN c.fields :
          StrV(f) \notin DOMAIN v.m =>
             LET fpath == segs0 \o <<".", f>>
                 calls == {n \in 1..Len(logA) : logA[n].lpath = fpath}
             IN IF isOptional(c, f)
                THEN /\ calls = {}
                     /\ resA.status = "ok" => StrV(f) \notin DOMAIN resA.newv.m
                ELSE /\ \A n \in calls : logA[n].c = c.fields[f] => logA[n].v = Nil
                     /\ (c.fields[f] = Any /\ resA.status = "ok") =>
                           resA.newv.m[StrV(f)] = Nil
                     /\ (c.fields[f] \in TypedLeaves /\ calls # {}) =>
                           /\ resA.status = "err"
                           /\ resA.want = TypedLeafWant(c.fields[f])
                           /\ resA.got = Nil
                           /\ resA.ptext = fpath

(***************************************************************************)
(* C4: List coerces the elements in index order and returns the error of   *)
(* the smallest failing index, with the index in its path and no element   *)
(* after it coerced; when no element fails it returns the sequence of the  *)
(* coerced elements; a value that is not a sequence is rejected with       *)
(* "list" at the path given.                                               *)
(***************************************************************************)
C4_ListFailFast ==
    (phase = "coerced" /\ c.kind = "listC") =>
       IF v.kind # "slice"
       THEN resA.status = "err" /\ resA.want = "list" /\ resA.ptext = segs0
       ELSE LET n == Len(v.elems)
                epath(i) == segs0 \o <<"[", Itoa(i - 1), "]">>
                failing == {i \in 1..n : Fails(c.elem, v.elems[i])}
            IN IF failing # {}
               THEN /\ resA.status = "err"
                    /\ View(resA) \in Views(Own(c.elem, v.elems[Min(failing)],
                                                epath(Min(failing))))
                    /\ \A k \in 1..Len(logA) : \A i \in 1..n :
                          (i > Min(failing)) => ~IsPrefix(epath(i), logA[k].lpath)
               ELSE /\ resA.status = "ok"
                    /\ resA.newv.kind = "slice"
                    /\ Len(resA.newv.elems) = n
                    /\ \A i \in 1..n :
                          resA.newv.elems[i] \in
                             {res.newv : res \in Own(c.elem, v.elems[i], epath(i))}

(***************************************************************************)
(* C8: rendering the error returned by a coercion yields, for every path   *)
(* the coercion was started with, the path segments joined (a leading "."  *)
(* dropped) followed by ": unsupported value" for an empty expected        *)
(* description, else by ": expected <want>, got nothing" for an absent     *)
(* value, else by ": expected <want>, got <value>".                        *)
(***************************************************************************)
C8_RenderingTotal ==
    (phase = "rendered") =>
       /\ rendered.status = "ok"
       /\ LET before == PathText(resA.ptext)
          IN IF resA.want = "" THEN rendered.text = before \o ": unsupported value"
             ELSE IF resA.got = Nil
                  THEN rendered.text = before \o ": expected " \o resA.want \o ", got nothing"
             ELSE \E g \in GoSyntax(resA.got) :
                     rendered.text = before \o ": expected " \o resA.want \o ", got " \o g

(***************************************************************************)
(* C10: a second call started with the same path slice writes nothing into *)
(* the storage an error returned by the first call refers to: the path of  *)
(* that error reads the same after the second call as when it was          *)
(* returned.                                                               *)
(***************************************************************************)
C10_ErrorPathOwned ==
    (phase \in {"coercedB", "renderedB"} /\ resA.status = "err") =>
       Read(heap, resA.path) = resA.ptext

(***************************************************************************)
(* C5: FieldMapSet panics at construction exactly when a candidate is not  *)
(* a FieldMap or has no checker for the selector field; so every mapSetC   *)
(* that exists has a selector checker in each candidate, and no Coerce     *)
(* call on it ends in a call on a missing checker.                         *)
(***************************************************************************)
Malformed(selector, maps) ==
    \E i \in 1..Len(maps) :
       \/ maps[i].kind # "fieldMapC"
       \/ selector \notin DOMAIN maps[i].fields
       \/ maps[i].fields[selector] = NilChecker

C5_ConstructionChecked ==
    (phase # "new" /\ req.ctor = "FieldMapSet") =>
       /\ (phase = "aborted") <=> Malformed(req.selector, req.maps)
       /\ phase # "aborted" =>
             /\ c.kind = "mapSetC"
             /\ \A i \in 1..Len(c.fmaps) :
                   /\ c.fmaps[i].kind = "fieldMapC"
                   /\ FieldOf(c.fmaps[i].fields, c.selector) # NilChecker
             /\ \A res \in {resA, resB, resR} :
                   res.status = "panic" => res.panic # NilCall

C5_Witness ==
    /\ phase = "aborted"
    /\ req.ctor = "FieldMapSet"
    /\ \A i \in 1..Len(req.maps) : req.maps[i].kind = "fieldMapC"
    /\ \E i \in 1..Len(req.maps) : req.selector \notin DOMAIN req.maps[i].fields

(***************************************************************************)
(* C9: within one top-level call every checker is invoked with, and the    *)
(* returned error carries, a path that reads as the caller's path followed *)
(* by exactly the segments of its own branch, whatever the spare capacity  *)
(* of the caller's slice; the caller's own segments are left unchanged.    *)
(***************************************************************************)
C9_BranchPaths ==
    (phase = "coerced") =>
       /\ \A n \in 1..Len(logA) :
             /\ logA[n].path = logA[n].lpath
             /\ IsPrefix(segs0, logA[n].path)
       /\ resA.status = "err" => (resA.ptext = resA.lpath /\ IsPrefix(segs0, resA.ptext))
       /\ Read(heap, path) = segs0

\* an error below the second element of a list, after the first element's
\* field was visited through the same storage, on a slice with spare room
C9_Witness ==
    /\ phase = "coerced"
    /\ resA.status = "err"
    /\ resA.ptext = segs0 \o <<"[", "1", "]", ".", "a">>
    /\ Len(heap[1]) > Len(segs0)
    /\ \E n \in 1..Len(logA) : logA[n].path = segs0 \o <<"[", "0", "]", ".", "a">>

(***************************************************************************)
(* C6: two coercions of the same value at the same path with the same      *)
(* checker, when they return, return the same result and the same error    *)
(* (expected description, offending value and path).                       *)
(***************************************************************************)
C6_Deterministic ==
    (phase = "coercedB" /\ vB = v /\ resA.status # "panic" /\ resB.status # "panic") =>
       View(resA) = View(resB)

\* the coercions c0.Coerce(v0, _) reaches do not depend on an enumeration
\* order: in every mapping they range over at most one entry fails and no
\* two keys coerce to the same key, and no Const prints a mapping of several
\* entries
RECURSIVE OrderFree(_, _)
OrderFree(c0, v0) ==
    CASE c0.kind = "constC" -> Cardinality(GoSyntax(c0.value)) = 1
      [] c0.kind = "oneOfC" ->
           \A i \in 1..Len(c0.options) :
              (\A j \in 1..(i - 1) : Errs(c0.options[j], v0)) => OrderFree(c0.options[i], v0)
      [] c0.kind = "listC" ->
           v0.kind = "slice" =>
              \A i \in 1..Len(v0.elems) :
                 (\A j \in 1..(i - 1) : Succeeds(c0.elem, v0.elems[j])) =>
                    OrderFree(c0.elem, v0.elems[i])
      [] c0.kind = "mapC" ->
           v0.kind = "map" =>
              LET m == v0.m
                  failing == {k \in DOMAIN m : Fails(c0.key, k) \/ Fails(c0.value, m[k])}
                  keyOut(k) == {res.newv : res \in {x \in Own(c0.key, k, <<>>) : x.status = "ok"}}
              IN /\ Cardinality(failing) <= 1
                 /\ \A k \in DOMAIN m :
                       /\ OrderFree(c0.key, k)
                       /\ Succeeds(c0.key, k) => OrderFree(c0.value, m[k])
                 /\ \A k1, k2 \in DOMAIN m : k1 # k2 => keyOut(k1) \cap keyOut(k2) = {}
      [] c0.kind = "fieldMapC" ->
           v0.kind = "map" =>
              LET m == v0.m
                  valueOf(f) == IF StrV(f) \in DOMAIN m THEN m[StrV(f)] ELSE Nil
                  coerced == {f \in DOMAIN c0.fields :
                                 StrV(f) \in DOMAIN m \/ ~isOptional(c0, f)}
                  failing == {f \in coerced : Fails(c0.fields[f], valueOf(f))}
              IN /\ Cardinality(failing) <= 1
                 /\ \A f \in coerced : OrderFree(c0.fields[f], valueOf(f))
      [] c0.kind = "mapSetC" ->
           (v0.kind = "map" /\ StrV(c0.selector) \in DOMAIN v0.m) =>
              LET sel == v0.m[StrV(c0.selector)]
                  probe(i) == FieldOf(c0.fmaps[i].fields, c0.selector)
              IN \A i \in 1..Len(c0.fmaps) :
                    (\A j \in 1..(i - 1) : Errs(probe(j), sel)) =>
                       /\ OrderFree(probe(i), sel)
                       /\ Succeeds(probe(i), sel) => OrderFree(c0.fmaps[i], v0)
      [] OTHER -> TRUE

\* C6 as amended: the two coercions agree whenever the coercion does not
\* depend on an enumeration order
C6_DeterministicOrderFree ==
    (phase = "coercedB" /\ vB = v /\ OrderFree(c, v)) => View(resA) = View(resB)

\* a mapping of two entries, one of which fails
C6_Witness ==
    /\ phase = "coercedB"
    /\ vB = v
    /\ OrderFree(c, v)
    /\ c.kind \in {"mapC", "fieldMapC"}
    /\ v.kind = "map"
    /\ Cardinality(DOMAIN v.m) = 2
    /\ resA.status = "err"
    /\ Len(resA.ptext) > Len(segs0)

(***************************************************************************)
(* C7: coercing the output of a successful coercion again, with the same   *)
(* checker, succeeds and returns that output.                              *)
(***************************************************************************)
C7_Idempotent ==
    (phase = "recoerced") => (resR.status = "ok" /\ resR.newv = resA.newv)

\* c0 contains neither OneOf nor FieldMapSet
RECURSIVE NoAlternatives(_)
NoAlternatives(c0) ==
    CASE c0.kind \in {"oneOfC", "mapSetC"} -> FALSE
      [] c0.kind = "listC" -> NoAlternatives(c0.elem)
      [] c0.kind = "mapC" -> NoAlternatives(c0.key) /\ NoAlternatives(c0.value)
      [] c0.kind = "fieldMapC" -> \A f \in DOMAIN c0.fields : NoAlternatives(c0.fields[f])
      [] OTHER -> TRUE

\* C7 as amended: idempotence of the checkers without OneOf and FieldMapSet
C7_IdempotentNoAlternatives ==
    (phase = "recoerced" /\ NoAlternatives(c)) =>
       (resR.status = "ok" /\ resR.newv = resA.newv)

\* a composite checker whose first coercion changed the value
C7_Witness ==
    /\ phase = "recoerced"
    /\ NoAlternatives(c)
    /\ c.kind \in {"listC", "mapC", "fieldMapC"}
    /\ resA.newv # v
    /\ resR.newv = resA.newv
====
